---- MODULE Spec2Model ----
(***************************************************************************)
(* Device lifecycle coordinator (robothub_depthai.manager.HubCameraManager) *)
(* and frame cache (robothub.frame_buffer.FrameBuffer).                     *)
(*                                                                          *)
(* The coordinator is modelled as the control thread's start() and stop()   *)
(* calls, the three loop threads _connect, _report and _poll, and the       *)
(* add_device/remove_device calls of the discovery mechanism, each cut at   *)
(* the points where the Python code can be preempted between statements.    *)
(* The Device class (start, poll, state, hub_camera, the reports) and the   *)
(* booted_cameras attribute are not part of the sources; they are modelled  *)
(* from the design document and marked so in the model map.                 *)
(***************************************************************************)
EXTENDS Integers, Sequences, FiniteSets, TLC

\* ------------------------------------------------------------------ bounds
NumDevices == 2        \* device identities (MXIDs) 1..NumDevices
MaxDevices == 2        \* longest _devices list explored

MaxCap == 3            \* largest deque maxlen explored
MaxPushes == 4         \* packets pushed in one run
MaxDt == 2             \* largest timestamp step between two packets
MaxSeconds == 2        \* largest before_seconds / after_seconds requested
MaxFps == 2            \* largest fps requested
NumExports == 1        \* save_video calls in one run
MaxViews == 3          \* LiveView.create calls in one run
MaxOverlays == 3       \* overlays added in one run
MaxPublishes == 3      \* frames published in one run
MaxPolls == 2          \* poll() calls counted in one run (the count saturates)

DeviceIds == 1..NumDevices
Exports == 1..NumExports
\* maxlen=None (the constructor's default) and end=None
NoneInt == -1

VARIABLES
    \* HubCameraManager
    _devices,            \* self._devices: list of devices (by identity)
    _connected_devices,  \* self._connected_devices
    running,             \* self.running
    stop_event,          \* self.stop_event (set or not)
    \* Device objects
    hub_camera,          \* device.hub_camera: "None" or "session"
    state,               \* device.state
    \* control thread: start()
    start_pc, start_i,
    start_seen,          \* history, kept during the boot loop: the devices that have
                         \* been registered ever since start() left its wait
    \* stop()
    stop_pc, close_todo, close_attempts, stop_error, streams_destroyed,
    \* loop threads
    connect_pc,
    report_pc, report_todo, reported,
    poll_pc, poll_todo, polled,
    \* FrameBuffer
    maxlen,              \* self.buffer.maxlen (NoneInt: unbounded)
    buffer,              \* self.buffer, oldest first
    temporary_queues,    \* self.temporary_queues: dict, in insertion order
    \* the ingestion thread: default_callback
    n_pushed, last_ts, push_pc, push_packet, push_seen, push_size, push_raised,
    pushed,              \* every packet handed to default_callback so far, in order
    \* get_slice calls from outside
    slice_call,
    \* save_video calls, one per export
    sv_pc, sv_args, sv_before, sv_pivot, sv_after, sv_result, sv_error,
    sv_called_at,        \* how many packets had been pushed when the slice was read
    \* LiveView: the registry and the objects created so far
    LIVE_VIEWS,          \* the module's dict, in insertion order: key -> view
    views,               \* the LiveView objects in creation order (name, unique_key)
    lookup,              \* the last get_by_name / get_by_unique_key call and its result
    \* one LiveView object
    self_fps,            \* self.fps
    rectangles, labels, texts, lines,   \* the pending overlays
    validated,           \* self.__validated_frame_h264
    n_overlays,          \* overlays added so far (the next overlay's identity)
    added_at,            \* per overlay: how many frames had been published when it was added
    published,           \* the metadata handed to the stream handle, one per publish
    sve,                 \* the save_video_event call
    sve_thread,          \* the thread it started
    on_complete_calls,   \* calls of on_complete (send_video_event)
    \* robohub_depthai.manager.HubCameraManager (reporting and polling threads only)
    app_stop_event,      \* self.app.stop_event (set or not)
    camera_state,        \* camera.device.state, per camera of self.hub_cameras
    two_start_pc, two_start_i,
    two_stop_pc, two_stop_i, two_streams_destroyed,
    two_report_pc, two_report_i,
    two_poll_pc, two_poll_i,
    n_polls              \* camera.poll() calls made so far

flagVars   == <<running, stop_event>>
deviceVars == <<hub_camera, state>>
startVars  == <<start_pc, start_i, start_seen>>
stopVars   == <<stop_pc, close_todo, close_attempts, stop_error, streams_destroyed>>
reportVars == <<report_pc, report_todo, reported>>
pollVars   == <<poll_pc, poll_todo, polled>>

mgrVars == <<_devices, _connected_devices, flagVars, deviceVars, startVars, stopVars,
             connect_pc, reportVars, pollVars>>

\* FrameBuffer
pushVars == <<n_pushed, last_ts, push_pc, push_packet, push_seen, push_size, push_raised,
              pushed>>
svVars   == <<sv_pc, sv_args, sv_before, sv_pivot, sv_after, sv_result, sv_error,
              sv_called_at>>
bufVars  == <<maxlen, buffer, temporary_queues, pushVars, slice_call, svVars>>

regVars     == <<LIVE_VIEWS, views, lookup>>
overlayVars == <<rectangles, labels, texts, lines, n_overlays, added_at>>
sveVars     == <<sve, sve_thread, on_complete_calls>>
lvVars      == <<regVars, self_fps, overlayVars, validated, published, sveVars>>

twoVars == <<app_stop_event, camera_state, two_start_pc, two_start_i,
             two_stop_pc, two_stop_i, two_streams_destroyed,
             two_report_pc, two_report_i, two_poll_pc, two_poll_i, n_polls>>

\* everything that is not the coordinator's
notMgrVars == <<bufVars, lvVars, twoVars>>

vars == <<mgrVars, notMgrVars>>

\* ----------------------------------------------------------------- helpers
Range(s) == {s[i] : i \in 1..Len(s)}

\* list.remove(x): drops the first occurrence of x
RECURSIVE RemoveFirst(_, _)
RemoveFirst(s, x) ==
    IF s = <<>> THEN <<>>
    ELSE IF Head(s) = x THEN Tail(s)
    ELSE <<Head(s)>> \o RemoveFirst(Tail(s), x)

\* threading.Thread.is_alive(): started and its target has not returned
IsAlive(pc) == pc \notin {"new", "done", "crashed"}

ThreadPc(t) ==
    CASE t = "ConnectionThread" -> connect_pc
      [] t = "ReportingThread"  -> report_pc
      [] t = "PollingThread"    -> poll_pc

\* what the last step of the current for loop did (nothing yet)
NoReport == [dev |-> 0, outcome |-> "none", info |-> FALSE, stats |-> FALSE]
NoPoll == [dev |-> 0, outcome |-> "none"]
NoPacket == [id |-> 0, ts |-> 0]

\* self.booted_cameras: the devices that were booted, in boot order
BootedCameras == _connected_devices

\* ------------------------------------------------------------------- Init
InitMgr ==
    /\ _devices = <<>>
    /\ _connected_devices = <<>>
    /\ running = FALSE
    /\ stop_event = FALSE
    /\ hub_camera = [d \in DeviceIds |-> "None"]
    /\ state = [d \in DeviceIds |-> "DISCONNECTED"]
    /\ start_pc = "idle"
    /\ start_i = 1
    /\ start_seen = {}
    /\ stop_pc = "idle"
    /\ close_todo = <<>>
    /\ close_attempts = [d \in DeviceIds |-> 0]
    /\ stop_error = <<>>
    /\ streams_destroyed = FALSE
    /\ connect_pc = "new"
    /\ report_pc = "new"
    /\ report_todo = <<>>
    /\ reported = NoReport
    /\ poll_pc = "new"
    /\ poll_todo = <<>>
    /\ polled = NoPoll

\* FrameBuffer(maxlen): an empty deque and no temporary queue
InitBuf(m) ==
    /\ maxlen = m
    /\ buffer = <<>>
    /\ temporary_queues = <<>>
    /\ n_pushed = 0
    /\ last_ts = 0
    /\ push_pc = "idle"
    /\ push_packet = NoPacket
    /\ push_seen = {}
    /\ push_size = 0
    /\ push_raised = FALSE
    /\ pushed = <<>>
    /\ slice_call = [start |-> 0, end |-> 0, raised |-> FALSE, value |-> <<>>]
    /\ sv_pc = [e \in Exports |-> "idle"]
    /\ sv_args = [e \in Exports |-> [before_seconds |-> 0, after_seconds |-> 0, fps |-> 0]]
    /\ sv_before = [e \in Exports |-> <<>>]
    /\ sv_pivot = [e \in Exports |-> 0]
    /\ sv_after = [e \in Exports |-> <<>>]
    /\ sv_result = [e \in Exports |-> <<>>]
    /\ sv_error = [e \in Exports |-> "none"]
    /\ sv_called_at = [e \in Exports |-> 0]

\* live_view.py line 447: LIVE_VIEWS = dict(); LiveView.__init__ lines 124-140:
\* no overlay is pending and nothing was validated or published
NoView == 0
NoKey == ""
NoLookup == [kind |-> "none", arg |-> "", raised |-> FALSE, value |-> NoView]
NoCall == [called |-> FALSE, before_seconds |-> 0, after_seconds |-> 0, raised |-> "none"]

InitLv(f) ==
    /\ LIVE_VIEWS = <<>>
    /\ views = <<>>
    /\ lookup = NoLookup
    /\ self_fps = f
    /\ rectangles = <<>>
    /\ labels = <<>>
    /\ texts = <<>>
    /\ lines = <<>>
    /\ validated = FALSE
    /\ n_overlays = 0
    /\ added_at = <<>>
    /\ published = <<>>
    /\ sve = NoCall
    /\ sve_thread = "none"
    /\ on_complete_calls = 0

\* robohub_depthai/manager.py lines 16-21: the cameras are built from the list
\* of devices given to the constructor; no thread is started
hub_cameras == [i \in 1..NumDevices |-> i]

InitTwo ==
    /\ app_stop_event = FALSE
    /\ camera_state = [c \in DeviceIds |-> "DISCONNECTED"]
    /\ two_start_pc = "idle"
    /\ two_start_i = 1
    /\ two_stop_pc = "idle"
    /\ two_stop_i = 1
    /\ two_streams_destroyed = FALSE
    /\ two_report_pc = "new"
    /\ two_report_i = 1
    /\ two_poll_pc = "new"
    /\ two_poll_i = 1
    /\ n_polls = 0

Init == InitMgr /\ InitBuf(0) /\ InitLv(1) /\ InitTwo

\* -------------------------------------------------- add_device / remove_device
\* line 99: self._devices.append(device)
AddDeviceBody(d) == _devices' = Append(_devices, d)

add_device(d) ==
    /\ Len(_devices) < MaxDevices
    /\ AddDeviceBody(d)
    /\ UNCHANGED <<_connected_devices, flagVars, deviceVars, startVars, stopVars,
                   connect_pc, reportVars, pollVars, notMgrVars>>

\* line 105: self._devices.remove(device).  list.remove raises ValueError to the
\* caller when the device is absent and then changes nothing, so only calls on a
\* present device are steps.
remove_device(d) ==
    /\ d \in Range(_devices)
    /\ _devices' = RemoveFirst(_devices, d)
    /\ start_seen' = IF d \in Range(RemoveFirst(_devices, d)) THEN start_seen
                      ELSE start_seen \ {d}
    /\ UNCHANGED <<_connected_devices, flagVars, deviceVars, start_pc, start_i, stopVars,
                   connect_pc, reportVars, pollVars, notMgrVars>>

\* ------------------------------------------------------------------ start()
\* lines 40-44: running = True; connection_thread.start()
StartCall ==
    /\ start_pc = "idle"
    /\ running' = TRUE
    /\ connect_pc' = "loop"
    /\ start_pc' = "check"
    /\ UNCHANGED <<_devices, _connected_devices, stop_event, deviceVars, start_i, start_seen,
                   stopVars, reportVars, pollVars, notMgrVars>>

\* the waiting loop without its test of the device list
StartLeavesWaitUnchecked == (~running) \/ Len(_devices) >= 0

\* lines 47-49: while self.running: if self._devices: break
StartLeavesWait == (~running) \/ Len(_devices) > 0

StartCheck ==
    /\ start_pc = "check"
    /\ IF StartLeavesWait
         THEN start_pc' = "boot" /\ start_i' = 1 /\ start_seen' = Range(_devices)
         ELSE start_pc' = "wait" /\ UNCHANGED <<start_i, start_seen>>
    /\ UNCHANGED <<_devices, _connected_devices, flagVars, deviceVars, stopVars,
                   connect_pc, reportVars, pollVars, notMgrVars>>

\* line 51: self.stop_event.wait(5) returns on timeout or when the event is set
StartWait ==
    /\ start_pc = "wait"
    /\ start_pc' = "check"
    /\ UNCHANGED <<_devices, _connected_devices, flagVars, deviceVars, start_i, start_seen,
                   stopVars,
                   connect_pc, reportVars, pollVars, notMgrVars>>

\* Device.start(): opens the session, or raises
DeviceStart(d, ok) ==
    IF ok
      THEN /\ hub_camera' = [hub_camera EXCEPT ![d] = "session"]
           /\ state' = [state EXCEPT ![d] = "CONNECTED"]
      ELSE UNCHANGED <<hub_camera, state>>

\* lines 54-56: for device in self._devices: device.start(); append.  The list
\* iterator reads self._devices by index at every step; when it is exhausted
\* start() goes on to launch the reporting thread.
StartBoot(ok) ==
    /\ start_pc = "boot"
    /\ IF start_i <= Len(_devices)
         THEN /\ DeviceStart(_devices[start_i], ok)
              /\ IF ok
                   THEN /\ _connected_devices' = Append(_connected_devices, _devices[start_i])
                        /\ start_i' = start_i + 1
                        /\ UNCHANGED start_pc
                   ELSE /\ start_pc' = "raised"
                        /\ UNCHANGED <<_connected_devices, start_i>>
         ELSE /\ ok
              /\ start_pc' = "launch_report"
              /\ UNCHANGED <<_connected_devices, start_i, deviceVars>>
    /\ UNCHANGED <<_devices, flagVars, start_seen, stopVars, connect_pc, reportVars,
                   pollVars, notMgrVars>>

\* line 59: self.reporting_thread.start()
StartLaunchReport ==
    /\ start_pc = "launch_report"
    /\ report_pc' = "loop"
    /\ start_pc' = "launch_poll"
    /\ start_seen' = {}
    /\ UNCHANGED <<_devices, _connected_devices, flagVars, deviceVars, start_i,
                   stopVars,
                   connect_pc, report_todo, reported, pollVars, notMgrVars>>

\* line 63: self.polling_thread.start()
StartLaunchPoll ==
    /\ start_pc = "launch_poll"
    /\ poll_pc' = "loop"
    /\ start_pc' = "done"
    /\ UNCHANGED <<_devices, _connected_devices, flagVars, deviceVars, start_i, start_seen,
                   stopVars,
                   connect_pc, reportVars, poll_todo, polled, notMgrVars>>

\* ---------------------------------------------------------------- _connect
\* lines 142-145: while self.running: if len(connected) == len(devices): wait
ConnectIdles == Len(_connected_devices) = Len(_devices)

ConnectLoop ==
    /\ connect_pc = "loop"
    /\ connect_pc' = IF ~running THEN "done"
                     ELSE IF ConnectIdles THEN "wait" ELSE "reattach"
    /\ UNCHANGED <<_devices, _connected_devices, flagVars, deviceVars, startVars,
                   stopVars, reportVars, pollVars, notMgrVars>>

\* line 144: self.stop_event.wait(5); continue
ConnectWait ==
    /\ connect_pc = "wait"
    /\ connect_pc' = "loop"
    /\ UNCHANGED <<_devices, _connected_devices, flagVars, deviceVars, startVars,
                   stopVars, reportVars, pollVars, notMgrVars>>

\* lines 147-148: the reattach branch, a TODO that changes nothing
ConnectReattach ==
    /\ connect_pc = "reattach"
    /\ connect_pc' = "loop"
    /\ UNCHANGED <<_devices, _connected_devices, flagVars, deviceVars, startVars,
                   stopVars, reportVars, pollVars, notMgrVars>>

\* ----------------------------------------------------------------- _report
ReportOutcomes == {"ok", "info_report_raises", "stats_report_raises",
                   "publish_info_raises", "publish_stats_raises"}

\* lines 112-113: while self.running: for camera in self.booted_cameras
ReportLoop ==
    /\ report_pc = "loop"
    /\ IF running
         THEN report_pc' = "iter" /\ report_todo' = BootedCameras
         ELSE report_pc' = "done" /\ UNCHANGED report_todo
    /\ UNCHANGED <<_devices, _connected_devices, flagVars, deviceVars, startVars,
                   stopVars, connect_pc, reported, pollVars, notMgrVars>>

\* lines 114-121: one try block around both reports and both publishes; what
\* was published for the device before the first exception
ReportRecord(d, o) ==
    [dev |-> d, outcome |-> o,
     info  |-> o \in {"ok", "publish_stats_raises"},
     stats |-> o = "ok"]

ReportDevice(o) ==
    /\ report_pc = "iter"
    /\ report_todo # <<>>
    /\ reported' = ReportRecord(Head(report_todo), o)
    /\ report_todo' = Tail(report_todo)
    /\ UNCHANGED <<_devices, _connected_devices, flagVars, deviceVars, startVars,
                   stopVars, connect_pc, report_pc, pollVars, notMgrVars>>

\* end of the for loop
ReportIterEnd ==
    /\ report_pc = "iter"
    /\ report_todo = <<>>
    /\ report_pc' = "wait"
    /\ reported' = NoReport
    /\ UNCHANGED <<_devices, _connected_devices, flagVars, deviceVars, startVars,
                   stopVars, connect_pc, report_todo, pollVars, notMgrVars>>

\* line 123: self.stop_event.wait(self.REPORT_FREQUENCY)
ReportWait ==
    /\ report_pc = "wait"
    /\ report_pc' = "loop"
    /\ UNCHANGED <<_devices, _connected_devices, flagVars, deviceVars, startVars,
                   stopVars, connect_pc, report_todo, reported, pollVars, notMgrVars>>

\* ------------------------------------------------------------------- _poll
\* Device.poll(): success needs a session; failure is the driver reporting the
\* disconnection (the device's state becomes DISCONNECTED); or it raises
PollOutcomes(d) ==
    IF hub_camera[d] = "session" THEN {"ok", "fail", "raise"} ELSE {"fail", "raise"}

\* lines 129-130: while self.running: for camera in self.booted_cameras
PollLoop ==
    /\ poll_pc = "loop"
    /\ IF running
         THEN poll_pc' = "iter" /\ poll_todo' = BootedCameras
         ELSE poll_pc' = "done" /\ UNCHANGED poll_todo
    /\ UNCHANGED <<_devices, _connected_devices, flagVars, deviceVars, startVars,
                   stopVars, connect_pc, reportVars, polled, notMgrVars>>

\* lines 131-134: if not camera.poll(): camera.hub_camera = None; continue
PollFailed(d) ==
    /\ hub_camera' = [hub_camera EXCEPT ![d] = "None"]
    /\ state' = [state EXCEPT ![d] = "DISCONNECTED"]
    /\ UNCHANGED <<_devices, _connected_devices>>

PollDevice(o) ==
    /\ poll_pc = "iter"
    /\ poll_todo # <<>>
    /\ o \in PollOutcomes(Head(poll_todo))
    /\ polled' = [dev |-> Head(poll_todo), outcome |-> o]
    /\ CASE o = "ok"    -> /\ poll_todo' = Tail(poll_todo)
                           /\ UNCHANGED <<poll_pc, deviceVars, _devices, _connected_devices>>
         [] o = "fail"  -> /\ PollFailed(Head(poll_todo))
                           /\ poll_todo' = Tail(poll_todo)
                           /\ UNCHANGED poll_pc
         [] o = "raise" -> /\ poll_pc' = "crashed"
                           /\ UNCHANGED <<poll_todo, deviceVars, _devices, _connected_devices>>
    /\ UNCHANGED <<flagVars, startVars, stopVars, connect_pc, reportVars, notMgrVars>>

PollIterEnd ==
    /\ poll_pc = "iter"
    /\ poll_todo = <<>>
    /\ poll_pc' = "wait"
    /\ polled' = NoPoll
    /\ UNCHANGED <<_devices, _connected_devices, flagVars, deviceVars, startVars,
                   stopVars, connect_pc, reportVars, poll_todo, notMgrVars>>

\* line 136: self.stop_event.wait(self.POLL_FREQUENCY)
PollWait ==
    /\ poll_pc = "wait"
    /\ poll_pc' = "loop"
    /\ UNCHANGED <<_devices, _connected_devices, flagVars, deviceVars, startVars,
                   stopVars, connect_pc, reportVars, poll_todo, polled, notMgrVars>>

\* ------------------------------------------------------------------ stop()
\* line 73: self.stop_event.set()
StopCall ==
    /\ stop_pc = "idle"
    /\ stop_event' = TRUE
    /\ stop_pc' = "join_connect"
    /\ UNCHANGED <<_devices, _connected_devices, running, deviceVars, startVars,
                   close_todo, close_attempts, stop_error, streams_destroyed,
                   connect_pc, reportVars, pollVars, notMgrVars>>

\* lines 75-77: the order of the three joins
JoinTarget ==
    CASE stop_pc = "join_connect" -> "ConnectionThread"
      [] stop_pc = "join_report"  -> "ReportingThread"
      [] stop_pc = "join_poll"    -> "PollingThread"
      [] OTHER                    -> "none"

\* a stop() that gives up its joins after the first one
AfterJoinFirstOnly == "destroy"

AfterJoin ==
    CASE stop_pc = "join_connect" -> "join_report"
      [] stop_pc = "join_report"  -> "join_poll"
      [] OTHER                    -> "destroy"

\* lines 155-159: if thread.is_alive(): thread.join(), any exception caught.
\* join() returns once the thread is no longer alive; `excepted` is join()
\* raising in the caller (an interrupt) while the thread is still alive.
GracefulThreadJoin(excepted) ==
    /\ JoinTarget # "none"
    /\ IsAlive(ThreadPc(JoinTarget)) = excepted
    /\ stop_pc' = AfterJoin
    /\ UNCHANGED <<_devices, _connected_devices, flagVars, deviceVars, startVars,
                   close_todo, close_attempts, stop_error, streams_destroyed,
                   connect_pc, reportVars, pollVars, notMgrVars>>

\* lines 79-82: robothub.STREAMS.destroy_all_streams(), re-raised on failure
StopDestroy(ok) ==
    /\ stop_pc = "destroy"
    /\ IF ok
         THEN /\ streams_destroyed' = TRUE
              /\ stop_pc' = "snapshot"
              /\ UNCHANGED stop_error
         ELSE /\ stop_pc' = "raised"
              /\ stop_error' = <<"streams">>
              /\ UNCHANGED streams_destroyed
    /\ UNCHANGED <<_devices, _connected_devices, flagVars, deviceVars, startVars,
                   close_todo, close_attempts,
                   connect_pc, reportVars, pollVars, notMgrVars>>

\* line 84: for camera in self.booted_cameras
StopSnapshot ==
    /\ stop_pc = "snapshot"
    /\ close_todo' = BootedCameras
    /\ stop_pc' = "close"
    /\ UNCHANGED <<_devices, _connected_devices, flagVars, deviceVars, startVars,
                   close_attempts, stop_error,
                   streams_destroyed,
                   connect_pc, reportVars, pollVars, notMgrVars>>

\* lines 85-91, the device that is closed: hub_camera.__exit__ closes the session
\* (the device is DISCONNECTED afterwards) or raises; a device without a
\* session raises on the attribute access
CloseFails(d, ok) == hub_camera[d] = "None" \/ ~ok

\* lines 90-91: the exception of one device is re-raised out of the for loop
AfterCloseFailure(rest) ==
    /\ stop_pc' = "raised"
    /\ close_todo' = rest

StopClose(ok) ==
    /\ stop_pc = "close"
    /\ close_todo # <<>>
    /\ LET d == Head(close_todo) IN
         IF state[d] # "DISCONNECTED"
           THEN /\ close_attempts' =
                      [close_attempts EXCEPT ![d] = @ + (IF hub_camera[d] = "None" THEN 0 ELSE 1)]
                /\ IF CloseFails(d, ok)
                     THEN /\ AfterCloseFailure(Tail(close_todo))
                          /\ stop_error' = <<"device", d>>
                          /\ UNCHANGED <<deviceVars>>
                     ELSE /\ state' = [state EXCEPT ![d] = "DISCONNECTED"]
                          /\ close_todo' = Tail(close_todo)
                          /\ UNCHANGED <<hub_camera, stop_pc, stop_error>>
           ELSE /\ ok
                /\ close_todo' = Tail(close_todo)
                /\ UNCHANGED <<deviceVars, close_attempts, stop_pc, stop_error>>
    /\ UNCHANGED <<_devices, _connected_devices, flagVars, startVars,
                   streams_destroyed,
                   connect_pc, reportVars, pollVars, notMgrVars>>

\* line 93: the for loop is exhausted and stop() returns
StopReturn ==
    /\ stop_pc = "close"
    /\ close_todo = <<>>
    /\ stop_pc' = "done"
    /\ UNCHANGED <<_devices, _connected_devices, flagVars, deviceVars, startVars,
                   close_todo, close_attempts, stop_error,
                   streams_destroyed,
                   connect_pc, reportVars, pollVars, notMgrVars>>

\* ------------------------------------------------------------- FrameBuffer
\* a deque built without its maxlen
DequeAppendUnbounded(q, m, x) == Append(q, x)

\* collections.deque(maxlen=m).append(x): with maxlen None the deque grows,
\* otherwise the oldest items are discarded once it is full
DequeAppend(q, m, x) ==
    IF m = NoneInt THEN Append(q, x)
    ELSE IF m = 0 THEN <<>>
    ELSE IF Len(q) < m THEN Append(q, x)
    ELSE Append(Tail(q), x)

\* itertools.islice(it, start, stop): the items whose 0-based position k has
\* start <= k < stop (stop None: to the end), walking the iterable once
RECURSIVE ISlice(_, _, _, _)
ISlice(s, k, start, stop) ==
    IF s = <<>> \/ (stop # NoneInt /\ k >= stop) THEN <<>>
    ELSE (IF k >= start THEN <<Head(s)>> ELSE <<>>) \o ISlice(Tail(s), k + 1, start, stop)

\* positions counted from 1 instead of 0
get_slice_from_one(buf, start, end) ==
    IF start < 0 \/ (end # NoneInt /\ end < 0)
      THEN [raised |-> TRUE, value |-> <<>>]
      ELSE [raised |-> FALSE, value |-> ISlice(buf, 1, start, end)]

\* lines 33-35: list(itertools.islice(self.buffer, int(start), end)); islice
\* raises ValueError on a negative index
get_slice(buf, start, end) ==
    IF start < 0 \/ (end # NoneInt /\ end < 0)
      THEN [raised |-> TRUE, value |-> <<>>]
      ELSE [raised |-> FALSE, value |-> ISlice(buf, 0, start, end)]

\* a get_slice call from outside save_video
GetSliceCall(start, end) ==
    /\ slice_call' = [start |-> start, end |-> end,
                      raised |-> get_slice(buffer, start, end).raised,
                      value |-> get_slice(buffer, start, end).value]
    /\ slice_call' # slice_call
    /\ UNCHANGED <<maxlen, buffer, temporary_queues, pushVars, svVars, mgrVars, lvVars, twoVars>>

\* self.temporary_queues, a dict in insertion order
Tokens(tq) == {tq[i].token : i \in 1..Len(tq)}
QueueOf(tq, t) == (CHOOSE i \in 1..Len(tq) : tq[i].token = t)
DictSet(tq, t, q) ==
    IF t \in Tokens(tq)
      THEN [i \in 1..Len(tq) |-> IF tq[i].token = t THEN [token |-> t, queue |-> q] ELSE tq[i]]
      ELSE Append(tq, [token |-> t, queue |-> q])
DictPop(tq, t) == SelectSeq(tq, LAMBDA r : r.token # t)

\* lines 134-136, default_callback: the append, then the start of the for
\* loop over self.temporary_queues.items()
DefaultCallbackBody(dt) ==
    /\ push_pc = "idle"
    /\ n_pushed < MaxPushes
    /\ LET p == [id |-> n_pushed + 1, ts |-> last_ts + dt] IN
         /\ buffer' = DequeAppend(buffer, maxlen, p)
         /\ push_packet' = p
         /\ last_ts' = p.ts
         /\ pushed' = Append(pushed, p)
    /\ n_pushed' = n_pushed + 1
    /\ push_pc' = "iter"
    /\ push_seen' = {}
    /\ push_size' = Len(temporary_queues)
    /\ UNCHANGED <<maxlen, temporary_queues, push_raised, slice_call, svVars>>

\* default_callback registered as the device's callback (manual_publish)
DefaultCallbackAppend(dt) ==
    /\ DefaultCallbackBody(dt)
    /\ UNCHANGED <<mgrVars, lvVars, twoVars>>

\* one round of the for loop: the dict iterator raises RuntimeError when the
\* dict's size changed since the loop began, ends when every entry was
\* visited, and otherwise yields the next entry, whose queue gets the packet
DefaultCallbackPut ==
    /\ push_pc = "iter"
    /\ IF Len(temporary_queues) # push_size
         THEN /\ push_raised' = TRUE
              /\ push_pc' = "idle"
              /\ UNCHANGED <<temporary_queues, push_seen>>
         ELSE IF Tokens(temporary_queues) \subseteq push_seen
           THEN /\ push_pc' = "idle"
                /\ UNCHANGED <<temporary_queues, push_seen, push_raised>>
           ELSE LET i == CHOOSE j \in 1..Len(temporary_queues) :
                           /\ temporary_queues[j].token \notin push_seen
                           /\ \A k \in 1..(j - 1) : temporary_queues[k].token \in push_seen
                    r == temporary_queues[i]
                IN /\ temporary_queues' =
                        DictSet(temporary_queues, r.token, Append(r.queue, push_packet))
                   /\ push_seen' = push_seen \cup {r.token}
                   /\ UNCHANGED <<push_pc, push_raised>>
    /\ UNCHANGED <<maxlen, buffer, n_pushed, last_ts, push_packet, push_size, pushed,
                   slice_call, svVars, mgrVars, lvVars, twoVars>>

\* ------------------------------------------------------------- save_video
\* line 63: start=self.buffer.maxlen - before_seconds * fps
SliceStart(m, before_seconds, fps) == m - before_seconds * fps

\* lines 60-63: the argument check and the 'before' slice
SaveVideoCall(e, before_seconds, after_seconds, fps) ==
    /\ sv_pc[e] = "idle"
    /\ sv_args' = [sv_args EXCEPT ![e] = [before_seconds |-> before_seconds,
                                          after_seconds |-> after_seconds, fps |-> fps]]
    /\ sv_called_at' = [sv_called_at EXCEPT ![e] = n_pushed]
    /\ IF before_seconds < 0 \/ after_seconds < 0
         THEN /\ sv_pc' = [sv_pc EXCEPT ![e] = "raised"]
              /\ sv_error' = [sv_error EXCEPT ![e] = "ValueError"]
              /\ UNCHANGED sv_before
         ELSE IF maxlen = NoneInt
           THEN /\ sv_pc' = [sv_pc EXCEPT ![e] = "raised"]
                /\ sv_error' = [sv_error EXCEPT ![e] = "TypeError"]
                /\ UNCHANGED sv_before
           ELSE LET r == get_slice(buffer, SliceStart(maxlen, before_seconds, fps), NoneInt) IN
                IF r.raised
                  THEN /\ sv_pc' = [sv_pc EXCEPT ![e] = "raised"]
                       /\ sv_error' = [sv_error EXCEPT ![e] = "ValueError"]
                       /\ UNCHANGED sv_before
                  ELSE /\ sv_pc' = [sv_pc EXCEPT ![e] = "sliced"]
                       /\ sv_before' = [sv_before EXCEPT ![e] = r.value]
                       /\ UNCHANGED sv_error
    /\ UNCHANGED <<maxlen, buffer, temporary_queues, pushVars, slice_call,
                   sv_pivot, sv_after, sv_result, mgrVars, lvVars, twoVars>>

\* lines 64-68: the tap is registered, then the pivot is read from the last
\* 'before' entry (IndexError when there is none)
SaveVideoOpenTap(e) ==
    /\ sv_pc[e] = "sliced"
    /\ temporary_queues' = DictSet(temporary_queues, e, <<>>)
    /\ IF sv_before[e] = <<>>
         THEN /\ sv_pc' = [sv_pc EXCEPT ![e] = "raised"]
              /\ sv_error' = [sv_error EXCEPT ![e] = "IndexError"]
              /\ UNCHANGED sv_pivot
         ELSE /\ sv_pc' = [sv_pc EXCEPT ![e] = "waiting"]
              /\ sv_pivot' = [sv_pivot EXCEPT ![e] = sv_before[e][Len(sv_before[e])].ts]
              /\ UNCHANGED sv_error
    /\ UNCHANGED <<maxlen, buffer, pushVars, slice_call,
                   sv_args, sv_before, sv_after, sv_result, sv_called_at, mgrVars, lvVars, twoVars>>

\* lines 75-78: what one packet taken from the queue does
KeepsPacket(p, pivot) == p.ts > pivot
EndsWait(p, pivot, after_seconds) == p.ts - pivot > after_seconds

\* lines 71-78, one round of wait_until_complete: get(block=True) waits for a
\* packet in the export's own queue
SaveVideoGet(e) ==
    /\ sv_pc[e] = "waiting"
    /\ e \in Tokens(temporary_queues)
    /\ LET q == temporary_queues[QueueOf(temporary_queues, e)].queue IN
         /\ q # <<>>
         /\ temporary_queues' = DictSet(temporary_queues, e, Tail(q))
         /\ sv_after' = [sv_after EXCEPT ![e] =
                IF KeepsPacket(Head(q), sv_pivot[e]) THEN Append(@, Head(q)) ELSE @]
         /\ sv_pc' = [sv_pc EXCEPT ![e] =
                IF EndsWait(Head(q), sv_pivot[e], sv_args[e].after_seconds)
                  THEN "collected" ELSE "waiting"]
    /\ UNCHANGED <<maxlen, buffer, pushVars, slice_call,
                   sv_args, sv_before, sv_pivot, sv_result, sv_error, sv_called_at, mgrVars, lvVars, twoVars>>

\* lines 86-91: the tap is removed and before + after goes to the muxer
SaveVideoFinish(e) ==
    /\ sv_pc[e] = "collected"
    /\ temporary_queues' = DictPop(temporary_queues, e)
    /\ sv_result' = [sv_result EXCEPT ![e] = sv_before[e] \o sv_after[e]]
    /\ sv_pc' = [sv_pc EXCEPT ![e] = "done"]
    /\ UNCHANGED <<maxlen, buffer, pushVars, slice_call,
                   sv_args, sv_before, sv_pivot, sv_after, sv_error, sv_called_at, mgrVars, lvVars, twoVars>>

\* ---------------------------------------------------------------- LiveView
Names == {"front", "back"}
Keys == {"k1", "k2"}
\* line 171: f'{device_mxid}_{component.__class__.__name__.lower()}_encoded',
\* for the one device and component class the views are created for
DefaultKey == "mxid_cameracomponent_encoded"

\* the registry dict: LIVE_VIEWS[key] = view keeps the position of a key that
\* is already present
RegKeys(reg) == {reg[i].key : i \in 1..Len(reg)}
RegGet(reg, k) == reg[CHOOSE i \in 1..Len(reg) : reg[i].key = k].view
\* a registry that adds an entry at every registration
RegSetAppends(reg, k, v) == Append(reg, [key |-> k, view |-> v])

RegSet(reg, k, v) ==
    IF k \in RegKeys(reg)
      THEN [i \in 1..Len(reg) |-> IF reg[i].key = k THEN [key |-> k, view |-> v] ELSE reg[i]]
      ELSE Append(reg, [key |-> k, view |-> v])

\* lines 171-187, LiveView.create: the key defaults when none (or an empty one)
\* is given, the object is built and registered under the key
create(name, unique_key) ==
    /\ Len(views) < MaxViews
    /\ LET key == IF unique_key = NoKey THEN DefaultKey ELSE unique_key IN
         /\ views' = Append(views, [name |-> name, unique_key |-> key])
         /\ LIVE_VIEWS' = RegSet(LIVE_VIEWS, key, Len(views) + 1)
    /\ UNCHANGED <<lookup, self_fps, overlayVars, validated, published, sveVars, bufVars, mgrVars, twoVars>>

\* lines 296-299, get_by_name: for live_view in LIVE_VIEWS.values(), the first
\* whose name matches, else None
RECURSIVE get_by_name(_, _, _)
get_by_name(reg, vs, name) ==
    IF reg = <<>> THEN NoView
    ELSE IF vs[Head(reg).view].name = name THEN Head(reg).view
    ELSE get_by_name(Tail(reg), vs, name)

\* lines 310-313, get_by_unique_key: ValueError when the key is absent
get_by_unique_key(reg, unique_key) ==
    IF unique_key \notin RegKeys(reg)
      THEN [raised |-> TRUE, value |-> NoView]
      ELSE [raised |-> FALSE, value |-> RegGet(reg, unique_key)]

GetByNameCall(name) ==
    /\ lookup' = [kind |-> "name", arg |-> name, raised |-> FALSE,
                  value |-> get_by_name(LIVE_VIEWS, views, name)]
    /\ lookup' # lookup
    /\ UNCHANGED <<LIVE_VIEWS, views, self_fps, overlayVars, validated, published, sveVars,
                   bufVars, mgrVars, twoVars>>

GetByUniqueKeyCall(unique_key) ==
    /\ lookup' = [kind |-> "key", arg |-> unique_key,
                  raised |-> get_by_unique_key(LIVE_VIEWS, unique_key).raised,
                  value |-> get_by_unique_key(LIVE_VIEWS, unique_key).value]
    /\ lookup' # lookup
    /\ UNCHANGED <<LIVE_VIEWS, views, self_fps, overlayVars, validated, published, sveVars,
                   bufVars, mgrVars, twoVars>>

\* lines 358-359, 384, 401: the overlay is appended to its pending list
AddOverlay ==
    /\ n_overlays < MaxOverlays
    /\ n_overlays' = n_overlays + 1
    /\ added_at' = Append(added_at, Len(published))
    /\ UNCHANGED <<regVars, self_fps, validated, published, sveVars, bufVars, mgrVars, twoVars>>

add_rectangle ==
    /\ AddOverlay
    /\ rectangles' = Append(rectangles, n_overlays + 1)
    /\ labels' = Append(labels, n_overlays + 1)
    /\ UNCHANGED <<texts, lines>>

add_text ==
    /\ AddOverlay
    /\ texts' = Append(texts, n_overlays + 1)
    /\ UNCHANGED <<rectangles, labels, lines>>

add_line ==
    /\ AddOverlay
    /\ lines' = Append(lines, n_overlays + 1)
    /\ UNCHANGED <<rectangles, labels, texts>>

\* zip(rectangles, rectangle_labels): pairs up to the shorter list
Zip(a, b) == [i \in 1..(IF Len(a) < Len(b) THEN Len(a) ELSE Len(b)) |->
                 [bbox |-> a[i], label |-> b[i]]]

\* lines 86-99, _publish_data: the detections, then the texts, then the lines
Metadata(rs, ls, ts, lns) ==
    [detections |-> Zip(rs, ls),
     objects |-> [i \in 1..Len(ts) |-> [type |-> "text", id |-> ts[i]]]
                 \o [i \in 1..Len(lns) |-> [type |-> "line", id |-> lns[i]]]]

\* a reset that leaves the texts pending
_reset_overlays_keeps_texts ==
    /\ rectangles' = <<>>
    /\ labels' = <<>>
    /\ lines' = <<>>
    /\ texts' = texts

\* lines 441-444, _reset_overlays
_reset_overlays ==
    /\ rectangles' = <<>>
    /\ labels' = <<>>
    /\ lines' = <<>>
    /\ texts' = <<>>

\* lines 410-425, publish: the one-time validation only logs; the metadata goes
\* to the stream handle and the overlays are reset.  When _publish_data raises
\* (the stream handle refuses) nothing is delivered and nothing is reset.
PublishBody(ok) ==
    /\ Len(published) < MaxPublishes
    /\ validated' = TRUE
    /\ IF ok
         THEN /\ published' = Append(published, Metadata(rectangles, labels, texts, lines))
              /\ _reset_overlays
         ELSE UNCHANGED <<published, rectangles, labels, texts, lines>>
    /\ UNCHANGED <<n_overlays, added_at, regVars, self_fps, sveVars>>

publish(ok) ==
    /\ PublishBody(ok)
    /\ UNCHANGED <<bufVars, mgrVars, twoVars>>

\* lines 434-435, _publish_callback: publish, then the frame buffer's
\* default_callback (not reached when publish raised)
_publish_callback(ok, dt) ==
    /\ PublishBody(ok)
    /\ IF ok THEN DefaultCallbackBody(dt) ELSE UNCHANGED bufVars
    /\ UNCHANGED <<mgrVars, twoVars>>

\* frame_buffer.py lines 37-44: the parameters save_video accepts
SaveVideoParams == {"before_seconds", "after_seconds", "fps", "frame_width",
                    "frame_height", "return_bytes"}
\* live_view.py lines 337-345: the keyword arguments the thread passes
SaveVideoEventKwargs == {"before_seconds", "after_seconds", "fps", "frame_width",
                         "frame_height", "on_complete", "delete_after_complete"}

\* lines 330-349, save_video_event: the zero-capacity check, then the thread
\* is started and the call returns
save_video_event(before_seconds, after_seconds) ==
    /\ ~sve.called
    /\ sve' = [called |-> TRUE, before_seconds |-> before_seconds,
               after_seconds |-> after_seconds,
               raised |-> IF maxlen = 0 THEN "Exception" ELSE "none"]
    /\ sve_thread' = IF maxlen = 0 THEN "none" ELSE "started"
    /\ UNCHANGED <<on_complete_calls, regVars, self_fps, overlayVars, validated, published,
                   bufVars, mgrVars, twoVars>>

\* the thread's target: self.frame_buffer.save_video(**kwargs).  A keyword
\* that save_video does not accept makes the call raise TypeError before its
\* body runs, and the thread ends; otherwise the body of save_video runs.
SaveVideoEventThread ==
    /\ sve_thread = "started"
    /\ sve_thread' = IF SaveVideoEventKwargs \subseteq SaveVideoParams
                       THEN "running" ELSE "TypeError"
    /\ UNCHANGED <<sve, on_complete_calls, regVars, self_fps, overlayVars, validated, published,
                   bufVars, mgrVars, twoVars>>

\* ------------------------- robohub_depthai.manager.HubCameraManager (two loops)
\* lines 28-29: for camera in self.hub_cameras: camera.start(), which opens
\* the camera or raises; then the reporting thread is launched
TwoStartCall ==
    /\ two_start_pc = "idle"
    /\ two_start_pc' = "boot"
    /\ two_start_i' = 1
    /\ UNCHANGED <<app_stop_event, camera_state, two_stop_pc, two_stop_i,
                   two_streams_destroyed, two_report_pc, two_report_i,
                   two_poll_pc, two_poll_i, n_polls, mgrVars, bufVars, lvVars>>

TwoStartBoot(ok) ==
    /\ two_start_pc = "boot"
    /\ IF two_start_i <= Len(hub_cameras)
         THEN IF ok
                THEN /\ camera_state' = [camera_state EXCEPT ![hub_cameras[two_start_i]] = "CONNECTED"]
                     /\ two_start_i' = two_start_i + 1
                     /\ UNCHANGED two_start_pc
                ELSE /\ two_start_pc' = "raised"
                     /\ UNCHANGED <<camera_state, two_start_i>>
         ELSE /\ ok
              /\ two_start_pc' = "launch_report"
              /\ UNCHANGED <<camera_state, two_start_i>>
    /\ UNCHANGED <<app_stop_event, two_stop_pc, two_stop_i,
                   two_streams_destroyed, two_report_pc, two_report_i,
                   two_poll_pc, two_poll_i, n_polls, mgrVars, bufVars, lvVars>>

\* line 32: self.reporting_thread.start()
TwoStartLaunchReport ==
    /\ two_start_pc = "launch_report"
    /\ two_report_pc' = "loop"
    /\ two_start_pc' = "launch_poll"
    /\ UNCHANGED <<app_stop_event, camera_state, two_start_i, two_stop_pc, two_stop_i,
                   two_streams_destroyed, two_report_i,
                   two_poll_pc, two_poll_i, n_polls, mgrVars, bufVars, lvVars>>

\* line 36: self.polling_thread.start()
TwoStartLaunchPoll ==
    /\ two_start_pc = "launch_poll"
    /\ two_poll_pc' = "loop"
    /\ two_start_pc' = "done"
    /\ UNCHANGED <<app_stop_event, camera_state, two_start_i, two_stop_pc, two_stop_i,
                   two_streams_destroyed, two_report_pc, two_report_i,
                   two_poll_i, n_polls, mgrVars, bufVars, lvVars>>

\* line 80: while not self.app.stop_event.is_set()
TwoReportRuns == ~app_stop_event

TwoReportLoop ==
    /\ two_report_pc = "loop"
    /\ IF TwoReportRuns
         THEN two_report_pc' = "iter" /\ two_report_i' = 1
         ELSE two_report_pc' = "done" /\ UNCHANGED two_report_i
    /\ UNCHANGED <<app_stop_event, camera_state, two_start_pc, two_start_i,
                   two_stop_pc, two_stop_i, two_streams_destroyed,
                   two_poll_pc, two_poll_i, n_polls, mgrVars, bufVars, lvVars>>

\* lines 81-88: the reports of one camera, outside any try (an exception ends
\* the thread); after the last camera, time.sleep(REPORT_FREQUENCY)
TwoReportCamera(ok) ==
    /\ two_report_pc = "iter"
    /\ IF two_report_i <= Len(hub_cameras)
         THEN IF ok
                THEN two_report_i' = two_report_i + 1 /\ UNCHANGED two_report_pc
                ELSE two_report_pc' = "crashed" /\ UNCHANGED two_report_i
         ELSE /\ ok
              /\ two_report_pc' = "loop"
              /\ UNCHANGED two_report_i
    /\ UNCHANGED <<app_stop_event, camera_state, two_start_pc, two_start_i,
                   two_stop_pc, two_stop_i, two_streams_destroyed,
                   two_poll_pc, two_poll_i, n_polls, mgrVars, bufVars, lvVars>>

\* line 91: while self.app.stop_event.is_set()
TwoPollRuns == app_stop_event

TwoPollLoop ==
    /\ two_poll_pc = "loop"
    /\ IF TwoPollRuns
         THEN two_poll_pc' = "iter" /\ two_poll_i' = 1
         ELSE two_poll_pc' = "done" /\ UNCHANGED two_poll_i
    /\ UNCHANGED <<app_stop_event, camera_state, two_start_pc, two_start_i,
                   two_stop_pc, two_stop_i, two_streams_destroyed,
                   two_report_pc, two_report_i, n_polls, mgrVars, bufVars, lvVars>>

\* lines 92-95: camera.poll() for one camera, outside any try; after the last
\* camera, time.sleep(POLL_FREQUENCY)
TwoPollCamera(ok) ==
    /\ two_poll_pc = "iter"
    /\ IF two_poll_i <= Len(hub_cameras)
         THEN /\ n_polls' = IF n_polls < MaxPolls THEN n_polls + 1 ELSE n_polls
              /\ IF ok
                   THEN two_poll_i' = two_poll_i + 1 /\ UNCHANGED two_poll_pc
                   ELSE two_poll_pc' = "crashed" /\ UNCHANGED two_poll_i
         ELSE /\ ok
              /\ two_poll_pc' = "loop"
              /\ UNCHANGED <<two_poll_i, n_polls>>
    /\ UNCHANGED <<app_stop_event, camera_state, two_start_pc, two_start_i,
                   two_stop_pc, two_stop_i, two_streams_destroyed,
                   two_report_pc, two_report_i, mgrVars, bufVars, lvVars>>

\* line 43: self.app.stop_event.set()
TwoStopCall ==
    /\ two_stop_pc = "idle"
    /\ app_stop_event' = TRUE
    /\ two_stop_pc' = "wait_report"
    /\ UNCHANGED <<camera_state, two_start_pc, two_start_i, two_stop_i,
                   two_streams_destroyed, two_report_pc, two_report_i,
                   two_poll_pc, two_poll_i, n_polls, mgrVars, bufVars, lvVars>>

\* the thread stop() waits for at its two waits
TwoWaited ==
    CASE two_stop_pc \in {"wait_report", "join_report"} -> two_report_pc
      [] two_stop_pc \in {"wait_poll", "join_poll"}     -> two_poll_pc
      [] OTHER                                          -> "new"

TwoAfterWait ==
    IF two_stop_pc \in {"wait_report", "join_report"} THEN "wait_poll" ELSE "shutdown"

\* lines 45-57: while thread.is_alive(): time.sleep(1) ends when the thread
\* is no longer alive; an exception in it (an interrupt while the thread is
\* alive) is caught and followed by thread.join()
TwoStopWait(excepted) ==
    /\ two_stop_pc \in {"wait_report", "wait_poll"}
    /\ IsAlive(TwoWaited) = excepted
    /\ two_stop_pc' = IF excepted
                        THEN (IF two_stop_pc = "wait_report" THEN "join_report" ELSE "join_poll")
                        ELSE TwoAfterWait
    /\ UNCHANGED <<app_stop_event, camera_state, two_start_pc, two_start_i, two_stop_i,
                   two_streams_destroyed, two_report_pc, two_report_i,
                   two_poll_pc, two_poll_i, n_polls, mgrVars, bufVars, lvVars>>

\* lines 50, 57: thread.join() returns once the thread has ended
TwoStopJoin ==
    /\ two_stop_pc \in {"join_report", "join_poll"}
    /\ ~IsAlive(TwoWaited)
    /\ two_stop_pc' = TwoAfterWait
    /\ UNCHANGED <<app_stop_event, camera_state, two_start_pc, two_start_i, two_stop_i,
                   two_streams_destroyed, two_report_pc, two_report_i,
                   two_poll_pc, two_poll_i, n_polls, mgrVars, bufVars, lvVars>>

\* lines 59-67: AGENT.shutdown() (its exception is only logged), then
\* STREAMS.destroy_all_streams(), re-raised on failure
TwoStopDestroy(ok) ==
    /\ two_stop_pc = "shutdown"
    /\ IF ok
         THEN /\ two_streams_destroyed' = TRUE
              /\ two_stop_pc' = "close"
              /\ two_stop_i' = 1
         ELSE /\ two_stop_pc' = "raised"
              /\ UNCHANGED <<two_streams_destroyed, two_stop_i>>
    /\ UNCHANGED <<app_stop_event, camera_state, two_start_pc, two_start_i,
                   two_report_pc, two_report_i,
                   two_poll_pc, two_poll_i, n_polls, mgrVars, bufVars, lvVars>>

\* lines 69-77: a camera that is not DISCONNECTED is closed (a failure is
\* re-raised), then the streams are destroyed once more; after the last
\* camera stop() returns
TwoStopClose(ok) ==
    /\ two_stop_pc = "close"
    /\ IF two_stop_i <= Len(hub_cameras)
         THEN IF ok
                THEN /\ camera_state' = [camera_state EXCEPT ![hub_cameras[two_stop_i]] = "DISCONNECTED"]
                     /\ two_stop_i' = two_stop_i + 1
                     /\ UNCHANGED two_stop_pc
                ELSE /\ two_stop_pc' = "raised"
                     /\ UNCHANGED <<camera_state, two_stop_i>>
         ELSE /\ ok
              /\ two_stop_pc' = "done"
              /\ UNCHANGED <<camera_state, two_stop_i>>
    /\ UNCHANGED <<app_stop_event, two_start_pc, two_start_i, two_streams_destroyed,
                   two_report_pc, two_report_i,
                   two_poll_pc, two_poll_i, n_polls, mgrVars, bufVars, lvVars>>

\* ------------------------------------------------------------ specification
StartSteps == StartCheck \/ StartWait \/ (\E ok \in BOOLEAN : StartBoot(ok))
                \/ StartLaunchReport \/ StartLaunchPoll
ConnectSteps == ConnectLoop \/ ConnectWait \/ ConnectReattach
ReportSteps == ReportLoop \/ (\E o \in ReportOutcomes : ReportDevice(o)) \/ ReportIterEnd
                 \/ ReportWait
PollSteps == PollLoop \/ (\E o \in {"ok", "fail", "raise"} : PollDevice(o)) \/ PollIterEnd
               \/ PollWait
\* the steps of stop() that depend on nothing but stop() itself and on the
\* threads it joins having ended
StopSteps == GracefulThreadJoin(FALSE) \/ (\E ok \in BOOLEAN : StopDestroy(ok))
               \/ StopSnapshot \/ (\E ok \in BOOLEAN : StopClose(ok)) \/ StopReturn

Next ==
    \/ \E d \in DeviceIds : add_device(d)
    \/ \E d \in DeviceIds : remove_device(d)
    \/ StartCall
    \/ StartCheck
    \/ StartWait
    \/ \E ok \in BOOLEAN : StartBoot(ok)
    \/ StartLaunchReport
    \/ StartLaunchPoll
    \/ ConnectLoop
    \/ ConnectWait
    \/ ConnectReattach
    \/ ReportLoop
    \/ \E o \in ReportOutcomes : ReportDevice(o)
    \/ ReportIterEnd
    \/ ReportWait
    \/ PollLoop
    \/ \E o \in {"ok", "fail", "raise"} : PollDevice(o)
    \/ PollIterEnd
    \/ PollWait
    \/ StopCall
    \/ \E e \in BOOLEAN : GracefulThreadJoin(e)
    \/ \E ok \in BOOLEAN : StopDestroy(ok)
    \/ StopSnapshot
    \/ \E ok \in BOOLEAN : StopClose(ok)
    \/ StopReturn

Spec == Init /\ [][Next]_vars

\* Every started thread keeps being scheduled, and so do the calls in progress
\* on the control thread.  Nothing is assumed of the environment: devices need
\* not be added, polls need not fail, join() need not be interrupted.
Fairness ==
    /\ WF_vars(StartSteps)
    /\ WF_vars(ConnectSteps)
    /\ WF_vars(ReportSteps)
    /\ WF_vars(PollSteps)
    /\ WF_vars(StopSteps)

FairSpec == Spec /\ Fairness

\* ------------------------------------------- specification of the FrameBuffer
Capacities == {NoneInt} \cup 0..MaxCap
SliceIndexes == -1..(MaxCap + 1)
Seconds == -1..MaxSeconds

BufInit == InitMgr /\ InitLv(1) /\ InitTwo /\ \E m \in Capacities : InitBuf(m)

BufNext ==
    \/ \E dt \in 1..MaxDt : DefaultCallbackAppend(dt)
    \/ DefaultCallbackPut
    \/ \E e \in Exports, b \in Seconds, a \in Seconds, f \in 1..MaxFps :
           SaveVideoCall(e, b, a, f)
    \/ \E e \in Exports : SaveVideoOpenTap(e)
    \/ \E e \in Exports : SaveVideoGet(e)
    \/ \E e \in Exports : SaveVideoFinish(e)

BufSpec == BufInit /\ [][BufNext]_vars

\* An export runs on a thread of its own and the ingestion thread finishes the
\* callback it is in; whether another packet ever arrives is up to the device.
ExportSteps == \E e \in Exports : SaveVideoOpenTap(e) \/ SaveVideoGet(e) \/ SaveVideoFinish(e)
BufFairness == WF_vars(ExportSteps) /\ WF_vars(DefaultCallbackPut)
BufFairSpec == BufSpec /\ BufFairness

\* the buffer alone: packets are pushed and slices are read
SliceNext ==
    \/ \E dt \in 1..MaxDt : DefaultCallbackAppend(dt)
    \/ DefaultCallbackPut
    \/ \E i \in SliceIndexes, j \in SliceIndexes : GetSliceCall(i, j)

SliceSpec == BufInit /\ [][SliceNext]_vars

\* ------------------------------------------------ specification of a LiveView
\* line 140: FrameBuffer(maxlen=int(max_buffer_size * fps))
LvInit ==
    /\ InitMgr
    /\ InitTwo
    /\ \E s \in 0..MaxSeconds, f \in 1..MaxFps : InitBuf(s * f) /\ InitLv(f)

LvNext ==
    \/ add_rectangle
    \/ add_text
    \/ add_line
    \/ \E ok \in BOOLEAN : publish(ok)
    \/ \E ok \in BOOLEAN : _publish_callback(ok, 1)
    \/ DefaultCallbackPut
    \/ \E b \in Seconds, a \in Seconds : save_video_event(b, a)
    \/ SaveVideoEventThread

LvSpec == LvInit /\ [][LvNext]_vars

\* the registry alone
RegNext ==
    \/ \E n \in Names, k \in Keys \cup {NoKey} : create(n, k)
    \/ \E n \in Names : GetByNameCall(n)
    \/ \E k \in Keys \cup {DefaultKey} : GetByUniqueKeyCall(k)

RegSpec == Init /\ [][RegNext]_vars

\* -------------------------------------- specification of the two-loop manager
TwoNext ==
    \/ TwoStartCall
    \/ \E ok \in BOOLEAN : TwoStartBoot(ok)
    \/ TwoStartLaunchReport
    \/ TwoStartLaunchPoll
    \/ TwoReportLoop
    \/ \E ok \in BOOLEAN : TwoReportCamera(ok)
    \/ TwoPollLoop
    \/ \E ok \in BOOLEAN : TwoPollCamera(ok)
    \/ TwoStopCall
    \/ \E e \in BOOLEAN : TwoStopWait(e)
    \/ TwoStopJoin
    \/ \E ok \in BOOLEAN : TwoStopDestroy(ok)
    \/ \E ok \in BOOLEAN : TwoStopClose(ok)

TwoSpec == Init /\ [][TwoNext]_vars

\* ===================================================================== claims
Min(a, b) == IF a < b THEN a ELSE b
Max(a, b) == IF a > b THEN a ELSE b
LoopThreadsStarted == connect_pc # "new" /\ report_pc # "new" /\ poll_pc # "new"
LoopThreadsEnded == ~IsAlive(connect_pc) /\ ~IsAlive(report_pc) /\ ~IsAlive(poll_pc)

\* C1: once stop() has set the cancellation flag while the three loop threads
\* run, all three loop threads eventually terminate (under fair scheduling).
C1_LoopsTerminateAfterStop ==
    (stop_event /\ LoopThreadsStarted) ~> LoopThreadsEnded

\* C2: stop() called on a running coordinator whose three loops are in their
\* per-iteration wait eventually comes to its end (it returns, or it raises
\* what destroying the streams or closing a device raised), and no device has
\* its session close attempted twice.
C2_StopReturns ==
    /\ (stop_pc = "join_connect" /\ start_pc = "done" /\ connect_pc = "wait"
          /\ report_pc = "wait" /\ poll_pc = "wait") ~> (stop_pc \in {"done", "raised"})
    /\ [](\A d \in DeviceIds : close_attempts[d] <= 1)

\* C3: after poll() of a connected device failed, the device is still in the
\* device set but no longer in the connected subset, and the connected count is
\* strictly below the device count, so that the connection loop does not idle.
C3_FailedPollDemotes ==
    (polled.outcome = "fail" /\ polled.dev \in Range(_devices)) =>
        /\ polled.dev \notin Range(_connected_devices)
        /\ Len(_connected_devices) < Len(_devices)

\* C4: while start() is in its waiting loop no device is started and neither the
\* reporting nor the polling thread is launched, and start() leaves the waiting
\* loop at a check of the device set exactly when the set is not empty.
C4_StartWaitsForDevice ==
    /\ [](start_pc \in {"check", "wait"} =>
            /\ report_pc = "new" /\ poll_pc = "new"
            /\ _connected_devices = <<>>
            /\ \A d \in DeviceIds : hub_camera[d] = "None")
    /\ [][start_pc = "check" /\ start_pc' # "check" =>
            /\ start_pc' \in {"boot", "wait"}
            /\ (start_pc' = "boot") = (_devices # <<>>)]_vars

\* C4 witness: start() found no device and sleeps; a device has been added since.
C4_Witness == start_pc = "wait" /\ Len(_devices) = 1

\* C5: the device set never holds two devices of the same identity.
C5_NoDuplicateIdentities ==
    \A i, j \in 1..Len(_devices) : i # j => _devices[i] # _devices[j]

\* C6: every member of the connected subset has a session (hub_camera is not None).
C6_ConnectedHaveSession ==
    \A d \in Range(_connected_devices) : hub_camera[d] = "session"

\* C7: when stop() raises because closing one device failed, every other booted
\* device that is not DISCONNECTED has had its close attempted.
C7_AllClosesAttemptedBeforeRaise ==
    (stop_pc = "raised" /\ stop_error # <<>> /\ stop_error[1] = "device") =>
        \A d \in Range(close_todo) :
            state[d] = "DISCONNECTED" \/ close_attempts[d] > 0

\* C8: a buffer of capacity C > 0 never holds more than C entries, and it holds
\* exactly the last min(n, C) of the n packets pushed, in arrival order.
C8_BufferKeepsLastC ==
    maxlen > 0 =>
        /\ Len(buffer) = Min(n_pushed, maxlen)
        /\ \A i \in 1..Len(buffer) : buffer[i] = pushed[n_pushed - Len(buffer) + i]

\* C8 witness: more packets than the capacity were pushed (k >= 2 were evicted).
C8_Witness == maxlen > 0 /\ push_pc = "idle" /\ n_pushed >= maxlen + 2

\* C9: get_slice(i, j) with i, j >= 0 returns the entries at the 0-based
\* positions i..j-1 that exist, get_slice(i) those at i..L-1, in buffer order,
\* and the call changes neither the buffer nor the temporary queues.
C9_SliceStop == IF slice_call'.end = NoneInt THEN Len(buffer)
                ELSE Min(slice_call'.end, Len(buffer))
C9_GetSliceReturnsRange ==
    [][(slice_call' # slice_call /\ slice_call'.start >= 0) =>
          /\ ~slice_call'.raised
          /\ Len(slice_call'.value) = Max(0, C9_SliceStop - slice_call'.start)
          /\ \A k \in 1..Len(slice_call'.value) :
                 slice_call'.value[k] = buffer[slice_call'.start + k]
          /\ buffer' = buffer
          /\ temporary_queues' = temporary_queues]_vars

\* C9 witness: a slice strictly inside the buffer, with an explicit end.
C9_Witness ==
    /\ slice_call.start > 0
    /\ slice_call.end # NoneInt /\ slice_call.end < Len(buffer)
    /\ Len(slice_call.value) >= 2

\* C10: save_video with valid arguments on a buffer that held at least
\* before_seconds * fps (>= 1) entries does not fail, and returns the last
\* before_seconds * fps buffered entries followed by the packets pushed after
\* them up to and including the first whose timestamp exceeds pivot + after_seconds.
C10_Before(e) ==
    SubSeq(pushed, sv_called_at[e] - sv_args[e].before_seconds * sv_args[e].fps + 1,
           sv_called_at[e])
C10_Last(e) ==
    CHOOSE m \in sv_called_at[e]..Len(pushed) :
        /\ m > sv_called_at[e]
        /\ pushed[m].ts > pushed[sv_called_at[e]].ts + sv_args[e].after_seconds
        /\ \A k \in (sv_called_at[e] + 1)..(m - 1) :
               pushed[k].ts <= pushed[sv_called_at[e]].ts + sv_args[e].after_seconds
C10_Applies(e) ==
    /\ sv_pc[e] # "idle"
    /\ sv_args[e].before_seconds >= 0 /\ sv_args[e].after_seconds >= 0
    /\ maxlen # NoneInt
    /\ sv_args[e].before_seconds * sv_args[e].fps >= 1
    /\ Min(sv_called_at[e], maxlen) >= sv_args[e].before_seconds * sv_args[e].fps
C10_ExportIsBeforePlusAfter ==
    \A e \in Exports : C10_Applies(e) =>
        /\ sv_pc[e] # "raised"
        /\ sv_pc[e] = "done" =>
               sv_result[e] = C10_Before(e) \o SubSeq(pushed, sv_called_at[e] + 1, C10_Last(e))

\* C11: an export request with a negative before_seconds or after_seconds fails
\* with an invalid-argument error raised to the caller of the request, through
\* save_video and through save_video_event, and no tap was opened by it.
C11_NegativeDurationsRejected ==
    /\ \A e \in Exports :
          (sv_pc[e] # "idle"
             /\ (sv_args[e].before_seconds < 0 \/ sv_args[e].after_seconds < 0)) =>
              /\ sv_pc[e] = "raised" /\ sv_error[e] = "ValueError"
              /\ e \notin Tokens(temporary_queues)
    /\ (sve.called /\ (sve.before_seconds < 0 \/ sve.after_seconds < 0)) =>
          /\ sve.raised # "none"
          /\ temporary_queues = <<>>

\* C12: an export requested on a buffer of capacity 0 fails, through save_video
\* and through save_video_event, and a failed request leaves no tap registered.
C12_ZeroCapacityDisabled ==
    /\ maxlen = 0 =>
          \A e \in Exports :
              /\ sv_pc[e] \in {"idle", "sliced", "raised"}
              /\ sv_pc[e] = "raised" => e \notin Tokens(temporary_queues)
    /\ (maxlen = 0 /\ sve.called) => (sve.raised = "Exception" /\ sve_thread = "none")

\* C13: whenever no export is in flight (each has not begun, has returned or
\* has failed) the tap registry is empty.
C13_NoTapOutlivesItsExport ==
    (\A e \in Exports : sv_pc[e] \in {"idle", "done", "raised"}) => temporary_queues = <<>>

\* C14: every export that waits on its tap eventually finishes, whether or not
\* another packet is pushed (in a behaviour where none is, the after_seconds
\* deadline passes while the export waits).
C14_WaitingExportFinishes ==
    \A e \in Exports : (sv_pc[e] = "waiting") ~> (sv_pc[e] = "done")

\* C15: save_video_event returns at once having started the export thread, and
\* when that thread has ended the completion callback was invoked exactly once.
C15_CallbackOnceWhenThreadEnds ==
    (sve.called /\ sve.raised = "none") =>
        /\ sve_thread # "none"
        /\ sve_thread \notin {"started", "running"} => on_complete_calls = 1

\* C16: a publish that returns leaves the four pending overlay lists empty,
\* and every overlay added is either still pending, once, or part of the
\* metadata of exactly one publish, the first one after it was added.
C16_InList(o, l) == Cardinality({i \in 1..Len(l) : l[i] = o})
C16_InMeta(o, m) ==
    Cardinality({i \in 1..Len(m.detections) :
                    m.detections[i].bbox = o /\ m.detections[i].label = o})
      + Cardinality({i \in 1..Len(m.objects) : m.objects[i].id = o})
C16_Pending(o) == C16_InList(o, rectangles) + C16_InList(o, texts) + C16_InList(o, lines)
C16_OverlaysPublishedOnce ==
    /\ [](\A o \in 1..n_overlays :
            /\ \A i \in 1..Len(published) :
                   C16_InMeta(o, published[i]) = (IF i = added_at[o] + 1 THEN 1 ELSE 0)
            /\ C16_Pending(o) = (IF Len(published) > added_at[o] THEN 0 ELSE 1)
            /\ C16_InList(o, labels) = C16_InList(o, rectangles))
    /\ [][Len(published') > Len(published) =>
            /\ rectangles' = <<>> /\ labels' = <<>>
            /\ texts' = <<>> /\ lines' = <<>>]_vars

\* C16 witness: a rectangle, a text and a line were added after the first
\* frame and the second frame was published.
C16_Witness ==
    /\ Len(published) = 2
    /\ n_overlays = 3 /\ \A o \in 1..3 : added_at[o] = 1
    /\ Len(published[2].detections) = 1 /\ Len(published[2].objects) = 2
    /\ texts = <<>>

\* C17: a registration under a key that is already registered replaces the
\* entry (one entry per key, holding the last view created with that key),
\* lookup by a registered key returns that view without an error, and lookup
\* by name returns the first view in registry order with that name, or none.
C17_LastWithKey(k) ==
    CHOOSE i \in 1..Len(views) :
        /\ views[i].unique_key = k
        /\ \A j \in (i + 1)..Len(views) : views[j].unique_key # k
C17_Positions(name) ==
    {p \in 1..Len(LIVE_VIEWS) : views[LIVE_VIEWS[p].view].name = name}
C17_FirstWithName(name) ==
    IF C17_Positions(name) = {} THEN NoView
    ELSE LIVE_VIEWS[CHOOSE p \in C17_Positions(name) :
                        \A q \in C17_Positions(name) : p <= q].view
C17_RegistryLastWriteWins ==
    /\ [](/\ RegKeys(LIVE_VIEWS) = {views[i].unique_key : i \in 1..Len(views)}
          /\ Len(LIVE_VIEWS) = Cardinality(RegKeys(LIVE_VIEWS))
          /\ \A p \in 1..Len(LIVE_VIEWS) :
                 LIVE_VIEWS[p].view = C17_LastWithKey(LIVE_VIEWS[p].key))
    /\ [][lookup' # lookup =>
            /\ (lookup'.kind = "key" /\ lookup'.arg \in RegKeys(LIVE_VIEWS)) =>
                   (~lookup'.raised /\ lookup'.value = C17_LastWithKey(lookup'.arg))
            /\ lookup'.kind = "name" =>
                   (~lookup'.raised /\ lookup'.value = C17_FirstWithName(lookup'.arg))]_vars

\* C17 witness: two views were created with the same explicit key and the
\* lookup by that key returned the second.
C17_Witness ==
    /\ Len(views) >= 2
    /\ views[1].unique_key = "k1" /\ views[2].unique_key = "k1"
    /\ lookup.kind = "key" /\ lookup.arg = "k1" /\ lookup.value = 2

\* C18: stop() joins the connection, reporting and polling threads in that
\* order, goes on to the next join also when a join raised, destroys the
\* streams only after the third join, closes no device session before the
\* streams were destroyed, and raises when destroying the streams fails.
C18_StopOrder ==
    [][/\ (stop_pc' # stop_pc /\ stop_pc = "idle") => stop_pc' = "join_connect"
       /\ (stop_pc' # stop_pc /\ stop_pc = "join_connect") => stop_pc' = "join_report"
       /\ (stop_pc' # stop_pc /\ stop_pc = "join_report") => stop_pc' = "join_poll"
       /\ (stop_pc' # stop_pc /\ stop_pc = "join_poll") => stop_pc' = "destroy"
       /\ (stop_pc' # stop_pc /\ stop_pc = "destroy") =>
              \/ streams_destroyed' /\ stop_pc' = "snapshot"
              \/ ~streams_destroyed' /\ stop_pc' = "raised" /\ stop_error' = <<"streams">>
       /\ streams_destroyed' # streams_destroyed => stop_pc = "destroy"
       /\ close_attempts' # close_attempts => streams_destroyed]_vars

\* C18 witness: stop() returned after closing a device although the joins of
\* the connection and polling threads raised (both threads still run).
C18_Witness ==
    /\ stop_pc = "done" /\ streams_destroyed
    /\ IsAlive(connect_pc) /\ IsAlive(poll_pc)
    /\ \E d \in DeviceIds : close_attempts[d] = 1

\* C19: the connection thread runs before start() waits; when start() has
\* passed its boot loop every device that has been registered ever since the
\* wait ended is in the connected subset; the reporting thread is launched
\* after the boot loop and before the polling thread; and when a device's
\* start() raised neither thread is launched.
C19_StartBootsAllThenLaunches ==
    /\ start_pc # "idle" => connect_pc # "new"
    /\ start_pc = "launch_report" =>
          \A d \in start_seen : d \in Range(_connected_devices)
    /\ report_pc # "new" => start_pc \in {"launch_poll", "done"}
    /\ poll_pc # "new" => start_pc = "done"
    /\ start_pc = "raised" => (report_pc = "new" /\ poll_pc = "new")

\* C20: in the reporting loop the info and the stats of one device fail
\* independently: when getting or publishing the info failed the stats were
\* still published, and when getting or publishing the stats failed the info
\* was still published.
C20_ReportsFailIndependently ==
    /\ reported.outcome \in {"info_report_raises", "publish_info_raises"} => reported.stats
    /\ reported.outcome \in {"stats_report_raises", "publish_stats_raises"} => reported.info

\* C21: in the polling loop a device whose poll() returned failure or raised
\* does not end the loop: the loop goes on with the other devices of the cycle.
C21_PollFailureKeepsLoop ==
    polled.outcome \in {"fail", "raise"} => poll_pc = "iter"

\* C22: a push never fails while exports open and close their taps, and the
\* queue of every registered tap holds packets in push order.
C22_PushNeverFails ==
    /\ ~push_raised
    /\ \A i \in 1..Len(temporary_queues) :
           \A j, k \in 1..Len(temporary_queues[i].queue) :
               j < k => temporary_queues[i].queue[j].id < temporary_queues[i].queue[k].id

\* C23: the sequence an export returns is contiguous: it holds consecutive
\* pushed packets, none missing and none twice.
C23_ExportIsContiguous ==
    \A e \in Exports :
        sv_pc[e] = "done" =>
            \A i \in 1..(Len(sv_result[e]) - 1) :
                sv_result[e][i + 1].id = sv_result[e][i].id + 1

\* C25: in a run where no device is ever registered, when stop() has set the
\* stop event while start() waits for the first device, start() eventually
\* returns and stop() eventually comes to its end.
C25_StopDuringWaitReturns ==
    [](_devices = <<>>) =>
        ((stop_pc = "join_connect" /\ start_pc = "wait")
            ~> (start_pc = "done" /\ stop_pc \in {"done", "raised"}))

\* C26: the connected subset is a subset of the device set and the connected
\* count never exceeds the device count.
C26_ConnectedSubsetOfDevices ==
    /\ Range(_connected_devices) \subseteq Range(_devices)
    /\ Len(_connected_devices) <= Len(_devices)

\* C24: in the two-loop manager, once start() has launched the polling thread
\* and until stop() sets the stop event, the polling thread keeps running (it
\* has not left its loop).
C24_TwoLoopPollingRuns ==
    (two_start_pc = "done" /\ ~app_stop_event) => two_poll_pc # "done"

====
